---- MODULE Spec2Model ----
(***************************************************************************)
(* Masterblog API (backend/backend_app.py): an in-memory list of blog      *)
(* posts, POSTS, behind five Flask routes: create and list (get_posts),    *)
(* delete_post, update_post and post_search.                               *)
(*                                                                         *)
(* Text is modelled as a sequence of Unicode code points, so that Python's *)
(* string comparison (sorted), substring test (in) and int() are computed  *)
(* and not assumed.  An optional value (request.args.get, which gives a    *)
(* string or None) is a set of at most one element: None is {}.  A JSON    *)
(* object is a function from its keys to its values.                       *)
(***************************************************************************)
EXTENDS Integers, Sequences, FiniteSets, TLC

VARIABLES
    POSTS,      \* the module-level list POSTS
    request,    \* the request being answered (method, route, json / args)
    response,   \* the response returned for it (status, body)
    high,       \* history: the largest post_id a post has ever carried
    threads,    \* concurrent handlers: each thread's request, position, locals
    oids        \* the identity of the object at each position of POSTS

vars == <<POSTS, request, response, high, threads, oids>>

\* ---------------------------------------------------------------- bounds

\* The largest post_id a create may assign in the model (ids grow without
\* bound in the program).
MaxId == 3

\* The largest number of posts of a collection the read-only specification
\* starts from.
MaxQueryPosts == 2

\* ------------------------------------------------------------------ text

Empty == <<>>
FirstTitle == <<70, 105, 114, 115, 116, 32, 112, 111, 115, 116>>
SecondTitle == <<83, 101, 99, 111, 110, 100, 32, 112, 111, 115, 116>>
FirstContent ==
    <<84, 104, 105, 115, 32, 105, 115, 32, 116, 104, 101, 32,
      102, 105, 114, 115, 116, 32, 112, 111, 115, 116, 46>>
SecondContent ==
    <<84, 104, 105, 115, 32, 105, 115, 32, 116, 104, 101, 32,
      115, 101, 99, 111, 110, 100, 32, 112, 111, 115, 116, 46>>
\* "first post", "post", "First", "first", "x", "01"
LowerTitle == <<102, 105, 114, 115, 116, 32, 112, 111, 115, 116>>
TermPost == <<112, 111, 115, 116>>
TermFirst == <<70, 105, 114, 115, 116>>
TermLower == <<102, 105, 114, 115, 116>>
TextX == <<120>>
TextZeroOne == <<48, 49>>
\* "title", "content", "asc", "desc", and the invalid "id" and "up"
TextTitle == <<116, 105, 116, 108, 101>>
TextContent == <<99, 111, 110, 116, 101, 110, 116>>
TextAsc == <<97, 115, 99>>
TextDesc == <<100, 101, 115, 99>>
TextId == <<105, 100>>
TextUp == <<117, 112>>

\* None and the truth value Python gives an optional string: None and ""
\* are false.
None == {}
Some(v) == {v}
Value(o) == CHOOSE v \in o : TRUE
Truthy(o) == o # None /\ o # Some(Empty)

\* Python's str < str: lexicographic by code point, a proper prefix first.
RECURSIVE StrLess(_, _)
StrLess(a, b) ==
    IF b = <<>> THEN FALSE
    ELSE IF a = <<>> THEN TRUE
    ELSE IF Head(a) < Head(b) THEN TRUE
    ELSE IF Head(a) > Head(b) THEN FALSE
    ELSE StrLess(Tail(a), Tail(b))

\* Python's `sub in s` for strings.
Contains(s, sub) ==
    \E i \in 0..(Len(s) - Len(sub)) : SubSeq(s, i + 1, i + Len(sub)) = sub

\* Python's int(s) on the texts the model supplies: decimal digits give
\* their value, anything else raises ValueError.
IsDecimal(s) == s # <<>> /\ \A i \in 1..Len(s) : s[i] \in 48..57
RECURSIVE ParseInt(_)
ParseInt(s) ==
    IF s = <<>> THEN 0 ELSE 10 * ParseInt(SubSeq(s, 1, Len(s) - 1)) + (s[Len(s)] - 48)

\* ----------------------------------------------------------------- state

SeedPosts ==
    << [post_id |-> 1, title |-> FirstTitle, content |-> FirstContent],
       [post_id |-> 2, title |-> SecondTitle, content |-> SecondContent] >>

NoRequest == [method |-> "NONE", route |-> "NONE"]
NoResponse == [status |-> 0]

Threads == {1, 2}
Idle == [pc |-> "idle"]

\* Object identities when no request is in progress: no reference to a post
\* is held, and each object is named by its position.
Positions(P) == [i \in 1..Len(P) |-> i]

Init ==
    /\ POSTS = SeedPosts
    /\ request = NoRequest
    /\ response = NoResponse
    /\ high = 2
    /\ threads = [t \in Threads |-> Idle]
    /\ oids = <<1, 2>>

\* ----------------------------------------------------------- the helpers

\* A validation that also rejects an empty title or content.
validate_post_data_NonEmpty(data) ==
    /\ "title" \in DOMAIN data /\ data.title # Empty
    /\ "content" \in DOMAIN data /\ data.content # Empty

\* validate_post_data: both keys present (their values are not looked at).
validate_post_data(data) ==
    ~ ("title" \notin DOMAIN data \/ "content" \notin DOMAIN data)

\* find_existing_post: the position of the first post with the same title
\* and content, 0 for None.
find_existing_post(P, post) ==
    IF \E i \in 1..Len(P) : P[i].title = post.title /\ P[i].content = post.content
    THEN CHOOSE i \in 1..Len(P) :
            /\ P[i].title = post.title /\ P[i].content = post.content
            /\ \A j \in 1..(i - 1) :
                   ~ (P[j].title = post.title /\ P[j].content = post.content)
    ELSE 0

\* find_post_by_id: the position of the first post with this id, 0 for None
\* (the post object the code returns is the element at that position).
find_post_by_id(P, post_id) ==
    IF \E i \in 1..Len(P) : P[i].post_id = post_id
    THEN CHOOSE i \in 1..Len(P) :
            /\ P[i].post_id = post_id
            /\ \A j \in 1..(i - 1) : P[j].post_id # post_id
    ELSE 0

\* max(post['post_id'] for post in POSTS), for a non-empty list.
MaxPostId(P) ==
    CHOOSE m \in {P[i].post_id : i \in 1..Len(P)} :
        \A i \in 1..Len(P) : P[i].post_id <= m

\* An id taken from the length of the list instead of its largest id.
NewId_FromLength(P) == Len(P) + 1

\* new_id = max(...) + 1
NewId(P) == MaxPostId(P) + 1

\* new_post['post_id'] = new_id: the JSON object with the key set.
WithPostId(new_post, new_id) ==
    [k \in DOMAIN new_post \cup {"post_id"} |->
        IF k = "post_id" THEN new_id ELSE new_post[k]]

\* A removal that takes the post's id for its position: del POSTS[id - 1].
Remove_AtIdPosition(P, x) ==
    LET i == IF x.post_id <= Len(P) THEN x.post_id ELSE Len(P)
    IN  SubSeq(P, 1, i - 1) \o SubSeq(P, i + 1, Len(P))

\* list.remove(x): the list without its first element equal to x.
Remove(P, x) ==
    LET i == CHOOSE i \in 1..Len(P) : P[i] = x /\ \A j \in 1..(i - 1) : P[j] # x
    IN  SubSeq(P, 1, i - 1) \o SubSeq(P, i + 1, Len(P))

\* ---------------------------------------------------------------- inputs

Titles == {Empty, FirstTitle, LowerTitle}
Contents == {Empty, FirstContent}
PostIds == 1..MaxId

\* The JSON bodies of a create or an update: any of the two keys may be absent.
JsonBodies ==
    { d \in UNION { [K -> Titles \cup Contents] : K \in SUBSET {"title", "content"} } :
        /\ ("title" \in DOMAIN d => d.title \in Titles)
        /\ ("content" \in DOMAIN d => d.content \in Contents) }

\* --------------------------------------------------- get_posts, POST branch

get_posts_POST(new_post) ==
    /\ request' = [method |-> "POST", route |-> "/api/posts", json |-> new_post]
    /\ UNCHANGED threads
    /\ IF ~ validate_post_data(new_post)
       THEN /\ response' = [status |-> 400,
                            body |-> [error |-> "Invalid post data - either 'title' or 'content' is missing."]]
            /\ UNCHANGED <<POSTS, high>>
       ELSE IF find_existing_post(POSTS, new_post) # 0
       THEN /\ response' = [status |-> 409, body |-> [error |-> "Post already exists"]]
            /\ UNCHANGED <<POSTS, high>>
       ELSE IF POSTS = <<>>
       THEN \* max() of an empty sequence raises ValueError
            /\ response' = [status |-> 500, body |-> [error |-> "ValueError"]]
            /\ UNCHANGED <<POSTS, high>>
       ELSE /\ NewId(POSTS) <= MaxId
            /\ POSTS' = Append(POSTS, WithPostId(new_post, NewId(POSTS)))
            /\ response' = [status |-> 201, body |-> WithPostId(new_post, NewId(POSTS))]
            /\ high' = IF NewId(POSTS) > high THEN NewId(POSTS) ELSE high
    /\ oids' = Positions(POSTS')

\* -------------------------------------------------------------- delete_post

delete_post(post_id) ==
    /\ request' = [method |-> "DELETE", route |-> "/api/posts/<int:post_id>",
                   post_id |-> post_id]
    /\ UNCHANGED <<high, threads>>
    /\ IF find_post_by_id(POSTS, post_id) = 0
       THEN /\ response' = [status |-> 404, body |-> [error |-> "Post not found"]]
            /\ UNCHANGED POSTS
       ELSE /\ POSTS' = Remove(POSTS, POSTS[find_post_by_id(POSTS, post_id)])
            /\ response' = [status |-> 200,
                            body |-> [message |-> <<"Post with id ", post_id,
                                                    " has been deleted successfully.">>]]
    /\ oids' = Positions(POSTS')

\* -------------------------------------------------------------- update_post

\* An update that replaces the post's text whole: a key absent from data
\* empties the field.
Patched_Replace(post, data) ==
    [k \in DOMAIN post |->
        IF k = "title" THEN (IF "title" \in DOMAIN data THEN data.title ELSE Empty)
        ELSE IF k = "content"
             THEN (IF "content" \in DOMAIN data THEN data.content ELSE Empty)
        ELSE post[k]]

\* post['title'] = data['title'] and post['content'] = data['content'], each
\* only when the key is in data.
Patched(post, data) ==
    [k \in DOMAIN post |->
        IF k = "title" /\ "title" \in DOMAIN data THEN data.title
        ELSE IF k = "content" /\ "content" \in DOMAIN data THEN data.content
        ELSE post[k]]

update_post(post_id, data) ==
    /\ request' = [method |-> "PUT", route |-> "/api/posts/<int:post_id>",
                   post_id |-> post_id, json |-> data]
    /\ UNCHANGED <<high, threads>>
    /\ IF find_post_by_id(POSTS, post_id) = 0
       THEN /\ response' = [status |-> 404, body |-> [error |-> "Post not found"]]
            /\ UNCHANGED POSTS
       ELSE /\ POSTS' = [POSTS EXCEPT ![find_post_by_id(POSTS, post_id)] =
                            Patched(@, data)]
            /\ response' = [status |-> 200,
                            body |-> [message |-> <<"Post with id ", post_id,
                                                    " has been updated successfully.">>]]
    /\ oids' = Positions(POSTS')

\* --------------------------------------------------- get_posts, GET branch

is_valid_sort_field(field) == field \in {TextTitle, TextContent}

is_valid_sort_direction(direction) == direction \in {TextAsc, TextDesc}

\* list.reverse()
Reverse(S) == [i \in 1..Len(S) |-> S[Len(S) + 1 - i]]

\* sorted(POSTS, key=lambda post: post[key]): a new list, stable (posts with
\* equal keys keep their order), ascending by Python's string comparison.
\* Computed as an insertion sort: each post goes behind every post whose key
\* is not greater than its own.
InsertSorted(S, x, key) ==
    LET n == Cardinality({i \in 1..Len(S) : ~ StrLess(x[key], S[i][key])})
    IN  SubSeq(S, 1, n) \o <<x>> \o SubSeq(S, n + 1, Len(S))

RECURSIVE sorted(_, _)
sorted(P, key) ==
    IF P = <<>> THEN <<>>
    ELSE InsertSorted(sorted(SubSeq(P, 1, Len(P) - 1), key), P[Len(P)], key)

\* A descending order computed by sorted(..., reverse=True), which keeps
\* posts with equal keys in stored order, instead of reversing the ascending
\* list.
sort_posts_ReverseFlag(P, field, direction) ==
    LET key == IF field = Some(TextTitle) THEN "title" ELSE "content"
        asc == sorted(P, key)
    IN  IF field = Some(TextTitle) \/ field = Some(TextContent)
        THEN IF direction = Some(TextDesc)
             THEN Reverse(sorted(Reverse(P), key))
             ELSE asc
        ELSE P

\* sort_posts(field, direction), reading the list P; field and direction are
\* request.args.get values (None when the parameter is absent).
sort_posts(P, field, direction) ==
    IF field = Some(TextTitle)
    THEN IF direction = Some(TextDesc)
         THEN Reverse(sorted(P, "title"))
         ELSE sorted(P, "title")
    ELSE IF field = Some(TextContent)
    THEN IF direction = Some(TextDesc)
         THEN Reverse(sorted(P, "content"))
         ELSE sorted(P, "content")
    ELSE P

SortArgs == {None, Some(Empty), Some(TextTitle), Some(TextContent), Some(TextId)}
DirectionArgs == {None, Some(TextAsc), Some(TextDesc), Some(TextUp)}

get_posts_GET(sort_field, sort_direction) ==
    /\ request' = [method |-> "GET", route |-> "/api/posts",
                   args |-> [sort |-> sort_field, direction |-> sort_direction]]
    /\ UNCHANGED <<POSTS, high, threads, oids>>
    /\ IF Truthy(sort_field) /\ ~ is_valid_sort_field(Value(sort_field))
       THEN response' = [status |-> 400,
                         body |-> [error |-> <<"Invalid sort field: ", Value(sort_field)>>]]
       ELSE IF Truthy(sort_direction) /\ ~ is_valid_sort_direction(Value(sort_direction))
       THEN response' = [status |-> 400,
                         body |-> [error |-> <<"Invalid sort direction: ",
                                               Value(sort_direction)>>]]
       ELSE response' = [status |-> 200,
                         body |-> sort_posts(POSTS, sort_field, sort_direction)]

\* -------------------------------------------------------------- post_search

\* A search in which the title and content filters are both applied
\* (intersected) when both are given.
filtered_posts_Intersect(P, post_id, content, title) ==
    IF Truthy(post_id)
    THEN IF find_post_by_id(P, ParseInt(Value(post_id))) # 0
         THEN <<P[find_post_by_id(P, ParseInt(Value(post_id)))]>>
         ELSE <<>>
    ELSE IF Truthy(title) \/ Truthy(content)
         THEN SelectSeq(P, LAMBDA post :
                  /\ (Truthy(title) => Contains(post.title, Value(title)))
                  /\ (Truthy(content) => Contains(post.content, Value(content))))
         ELSE <<>>

\* filtered_posts as post_search computes it; its caller has checked that a
\* truthy post_id is a decimal text.
filtered_posts(P, post_id, content, title) ==
    IF Truthy(post_id)
    THEN IF find_post_by_id(P, ParseInt(Value(post_id))) # 0
         THEN <<P[find_post_by_id(P, ParseInt(Value(post_id)))]>>
         ELSE <<>>
    ELSE IF Truthy(title)
         THEN SelectSeq(P, LAMBDA post : Contains(post.title, Value(title)))
         ELSE IF Truthy(content)
              THEN SelectSeq(P, LAMBDA post : Contains(post.content, Value(content)))
              ELSE <<>>

PostIdArgs == {None, Some(Empty), Some(TextZeroOne), Some(TextX)}
TitleArgs == {None, Some(Empty), Some(TermPost), Some(TermFirst)}
ContentArgs == {None, Some(Empty), Some(TermLower)}

post_search(post_id, content, title) ==
    /\ request' = [method |-> "GET", route |-> "/api/posts/search",
                   args |-> [post_id |-> post_id, content |-> content, title |-> title]]
    /\ UNCHANGED <<POSTS, high, threads, oids>>
    /\ IF Truthy(post_id) /\ ~ IsDecimal(Value(post_id))
       THEN \* int(post_id) raises ValueError
            response' = [status |-> 500, body |-> [error |-> "ValueError"]]
       ELSE response' = [status |-> 200,
                         body |-> filtered_posts(POSTS, post_id, content, title)]


\* ------------------------------------------------- concurrent handlers
\* app.run serves each request on a thread of its own (Flask's development
\* server is threaded) and the handlers take no lock, so the statements of
\* two handlers interleave.  Each thread answers one request; a step is one
\* statement (or one call of a helper) of the handler, which is coarser than
\* the interpreter's switching between bytecodes.  A reference to a post is
\* the object's identity (oids); `seen` is the value the object had when the
\* reference was taken, which with two threads is still its value once the
\* other thread has removed it from the list.

Done(t, status) ==
    threads' = [threads EXCEPT ![t] = [@ EXCEPT !.pc = "done"] @@ [status |-> status]]

Goto(t, pc, locals) ==
    threads' = [threads EXCEPT ![t] = locals @@ [@ EXCEPT !.pc = pc]]

At(t, pc) == threads[t].pc = pc

\* The position in the list of the object `oid`, 0 when it is not in it.
PositionOf(oid) ==
    IF \E i \in 1..Len(oids) : oids[i] = oid
    THEN CHOOSE i \in 1..Len(oids) : oids[i] = oid
    ELSE 0

\* The object a create on thread t allocates.
NewOid(t) == 2 + t

\* get_posts, POST: new_post = request.get_json(); validate_post_data
conc_create_validate(t, new_post) ==
    /\ At(t, "idle")
    /\ UNCHANGED <<POSTS, oids, request, response, high>>
    /\ IF ~ validate_post_data(new_post)
       THEN threads' = [threads EXCEPT ![t] =
                [pc |-> "done", method |-> "POST", json |-> new_post, status |-> 400]]
       ELSE threads' = [threads EXCEPT ![t] =
                [pc |-> "find_existing", method |-> "POST", json |-> new_post]]

\* existing_post = find_existing_post(new_post)
conc_create_find_existing(t) ==
    /\ At(t, "find_existing")
    /\ UNCHANGED <<POSTS, oids, request, response, high>>
    /\ IF find_existing_post(POSTS, threads[t].json) # 0
       THEN Done(t, 409)
       ELSE Goto(t, "new_id", <<>>)

\* new_id = max(post['post_id'] for post in POSTS) + 1
conc_create_new_id(t) ==
    /\ At(t, "new_id")
    /\ UNCHANGED <<POSTS, oids, request, response, high>>
    /\ IF POSTS = <<>>
       THEN Done(t, 500)
       ELSE Goto(t, "append", [new_id |-> NewId(POSTS)])

\* new_post['post_id'] = new_id; POSTS.append(new_post)
conc_create_append(t) ==
    /\ At(t, "append")
    /\ POSTS' = Append(POSTS, WithPostId(threads[t].json, threads[t].new_id))
    /\ oids' = Append(oids, NewOid(t))
    /\ Done(t, 201)
    /\ UNCHANGED <<request, response, high>>

\* delete_post: post = find_post_by_id(post_id)
conc_delete_find(t, post_id) ==
    /\ At(t, "idle")
    /\ UNCHANGED <<POSTS, oids, request, response, high>>
    /\ IF find_post_by_id(POSTS, post_id) = 0
       THEN threads' = [threads EXCEPT ![t] =
                [pc |-> "done", method |-> "DELETE", post_id |-> post_id, status |-> 404]]
       ELSE threads' = [threads EXCEPT ![t] =
                [pc |-> "remove", method |-> "DELETE", post_id |-> post_id,
                 post |-> oids[find_post_by_id(POSTS, post_id)],
                 seen |-> POSTS[find_post_by_id(POSTS, post_id)]]]

\* delete_post: POSTS.remove(post) removes the first element that is the
\* object or equals it, and raises ValueError when there is none.
conc_delete_remove(t) ==
    /\ At(t, "remove")
    /\ UNCHANGED <<request, response, high>>
    /\ LET here == PositionOf(threads[t].post)
           value == IF here # 0 THEN POSTS[here] ELSE threads[t].seen
           hits == {i \in 1..Len(POSTS) : oids[i] = threads[t].post \/ POSTS[i] = value}
       IN  IF hits = {}
           THEN /\ Done(t, 500)
                /\ UNCHANGED <<POSTS, oids>>
           ELSE LET i == CHOOSE i \in hits : \A j \in hits : i <= j
                IN  /\ POSTS' = SubSeq(POSTS, 1, i - 1) \o SubSeq(POSTS, i + 1, Len(POSTS))
                    /\ oids' = SubSeq(oids, 1, i - 1) \o SubSeq(oids, i + 1, Len(oids))
                    /\ Done(t, 200)

\* update_post: post = find_post_by_id(post_id); data = request.get_json()
conc_update_find(t, post_id, data) ==
    /\ At(t, "idle")
    /\ UNCHANGED <<POSTS, oids, request, response, high>>
    /\ IF find_post_by_id(POSTS, post_id) = 0
       THEN threads' = [threads EXCEPT ![t] =
                [pc |-> "done", method |-> "PUT", post_id |-> post_id, json |-> data,
                 status |-> 404]]
       ELSE threads' = [threads EXCEPT ![t] =
                [pc |-> "set_title", method |-> "PUT", post_id |-> post_id, json |-> data,
                 post |-> oids[find_post_by_id(POSTS, post_id)]]]

\* The list after post[key] = data[key] on the object `oid`; an object no
\* longer in the list changes nothing in it.
SetField(P, oid, key, data) ==
    IF key \in DOMAIN data /\ PositionOf(oid) # 0
    THEN [P EXCEPT ![PositionOf(oid)] = [@ EXCEPT ![key] = data[key]]]
    ELSE P

\* update_post: if 'title' in data: post['title'] = data['title']
conc_update_title(t) ==
    /\ At(t, "set_title")
    /\ POSTS' = SetField(POSTS, threads[t].post, "title", threads[t].json)
    /\ Goto(t, "set_content", <<>>)
    /\ UNCHANGED <<oids, request, response, high>>

\* update_post: if 'content' in data: post['content'] = data['content']
conc_update_content(t) ==
    /\ At(t, "set_content")
    /\ POSTS' = SetField(POSTS, threads[t].post, "content", threads[t].json)
    /\ Done(t, 200)
    /\ UNCHANGED <<oids, request, response, high>>

\* ------------------------------------------------------------ specification

\* The mutating requests, one at a time, from the seed posts.
Next ==
    \/ \E new_post \in JsonBodies : get_posts_POST(new_post)
    \/ \E post_id \in PostIds : delete_post(post_id)
    \/ \E post_id \in PostIds, data \in JsonBodies : update_post(post_id, data)

Spec == Init /\ [][Next]_vars

\* The read-only requests, on every collection of at most MaxQueryPosts posts
\* that creates, updates and deletes can build: ids increase along the list
\* (a create appends max + 1), any ids may have been deleted, any text may
\* have been written by an update.
QueryTitles == {FirstTitle, SecondTitle, LowerTitle}
QueryContents == {FirstContent, SecondContent}
QueryPosts ==
    [post_id : 1..(MaxQueryPosts + 1), title : QueryTitles, content : QueryContents]
QueryCollections ==
    { P \in UNION { [1..n -> QueryPosts] : n \in 0..MaxQueryPosts } :
        \A i \in 1..(Len(P) - 1) : P[i].post_id < P[i + 1].post_id }

InitQuery ==
    /\ POSTS \in QueryCollections
    /\ request = NoRequest
    /\ response = NoResponse
    /\ high = MaxQueryPosts + 1
    /\ threads = [t \in Threads |-> Idle]
    /\ oids = Positions(POSTS)

NextQuery ==
    \/ \E sort_field \in SortArgs, sort_direction \in DirectionArgs :
          get_posts_GET(sort_field, sort_direction)
    \/ \E post_id \in PostIdArgs, content \in ContentArgs, title \in TitleArgs :
          post_search(post_id, content, title)

SpecQuery == InitQuery /\ [][NextQuery]_vars

\* Two requests served at once, from the seed posts.
NextConc ==
    \E t \in Threads :
        \/ \E new_post \in JsonBodies : conc_create_validate(t, new_post)
        \/ conc_create_find_existing(t)
        \/ conc_create_new_id(t)
        \/ conc_create_append(t)
        \/ \E post_id \in PostIds : conc_delete_find(t, post_id)
        \/ conc_delete_remove(t)
        \/ \E post_id \in PostIds, data \in JsonBodies : conc_update_find(t, post_id, data)
        \/ conc_update_title(t)
        \/ conc_update_content(t)

SpecConc == Init /\ [][NextConc]_vars

\* ================================================================ claims

HasId(P, X) == \E i \in 1..Len(P) : P[i].post_id = X
HasBothKeys(d) == {"title", "content"} \subseteq DOMAIN d
Matches(P, d) == \E i \in 1..Len(P) : P[i].title = d.title /\ P[i].content = d.content
IsCreate(r) == r.method = "POST" /\ r.route = "/api/posts"
IsUpdate(r) == r.method = "PUT"
IsDelete(r) == r.method = "DELETE"
IsList(r) == r.method = "GET" /\ r.route = "/api/posts"
IsSearch(r) == r.method = "GET" /\ r.route = "/api/posts/search"

\* C1: in every state that creates, updates and deletes reach from the two
\* seed posts, the ids of the posts in the collection are pairwise distinct.
C1_UniqueIds ==
    \A i, j \in 1..Len(POSTS) : i # j => POSTS[i].post_id # POSTS[j].post_id

\* C1's case: a post was created, an older one deleted and one updated.
C1_Witness ==
    /\ Len(POSTS) = 2 /\ POSTS[1].post_id = 1 /\ POSTS[2].post_id = 3
    /\ IsUpdate(request) /\ response.status = 200

\* C2: a create whose candidate has both keys and matches no existing post
\* succeeds in every state, the empty collection included: the collection
\* grows by one, the new post is appended, and its id is the previous
\* maximum + 1, or 1 when the collection was empty.
C2_ValidCreateSucceeds ==
    [][ (IsCreate(request') /\ HasBothKeys(request'.json)
            /\ ~ Matches(POSTS, request'.json))
        => /\ response'.status = 201
           /\ Len(POSTS') = Len(POSTS) + 1
           /\ SubSeq(POSTS', 1, Len(POSTS)) = POSTS
           /\ POSTS'[Len(POSTS')] = response'.body
           /\ response'.body.title = request'.json.title
           /\ response'.body.content = request'.json.content
           /\ response'.body.post_id =
                 (IF POSTS = <<>> THEN 1 ELSE MaxPostId(POSTS) + 1) ]_vars

\* C3: in every reachable state no two posts of the collection have the same
\* title and the same content.
C3_NoDuplicatePosts ==
    \A i, j \in 1..Len(POSTS) :
        i # j => ~ (POSTS[i].title = POSTS[j].title /\ POSTS[i].content = POSTS[j].content)

\* C5: a create that fails leaves the collection unchanged; it answers 400
\* (ValidationError) exactly when the title or the content key is missing, an
\* empty string counting as present, and 409 (DuplicateError) exactly when
\* both keys are there and a post has the same title and content, compared
\* exactly.
C5_FailedCreate ==
    [][ IsCreate(request')
        => /\ (response'.status = 400 <=> ~ HasBothKeys(request'.json))
           /\ (response'.status = 409 <=>
                  (HasBothKeys(request'.json) /\ Matches(POSTS, request'.json)))
           /\ (response'.status # 201 => POSTS' = POSTS) ]_vars

\* C5's case: a post with an empty title was stored, and a second create of
\* the same title and content was refused as a duplicate while a post whose
\* title differs from another's only in case is in the collection.
C5_Witness ==
    /\ IsCreate(request) /\ response.status = 409
    /\ request.json.title = Empty
    /\ \E i, j \in 1..Len(POSTS) :
          /\ POSTS[i].title = FirstTitle /\ POSTS[j].title = LowerTitle
          /\ POSTS[i].content = POSTS[j].content

\* C6: update(X, patch) of an existing id overwrites on that post exactly the
\* fields among title and content present in patch, and leaves its id, its
\* other field, every other post and the size and order of the collection
\* as they were; update of an unknown id answers 404 (NotFoundError) and
\* leaves the collection unchanged.
C6_UpdateFrame ==
    [][ IsUpdate(request')
        => LET X == request'.post_id
               patch == request'.json
           IN  IF HasId(POSTS, X)
               THEN /\ response'.status = 200
                    /\ Len(POSTS') = Len(POSTS)
                    /\ \A i \in 1..Len(POSTS) :
                          IF POSTS[i].post_id = X
                          THEN /\ DOMAIN POSTS'[i] = DOMAIN POSTS[i]
                               /\ POSTS'[i].post_id = X
                               /\ POSTS'[i].title =
                                     (IF "title" \in DOMAIN patch THEN patch.title
                                      ELSE POSTS[i].title)
                               /\ POSTS'[i].content =
                                     (IF "content" \in DOMAIN patch THEN patch.content
                                      ELSE POSTS[i].content)
                          ELSE POSTS'[i] = POSTS[i]
               ELSE response'.status = 404 /\ POSTS' = POSTS ]_vars

\* C6's case: an update carrying only a title has rewritten the title of the
\* second seed post, whose content and id are still the seed's, in a
\* collection that holds other posts.
C6_Witness ==
    /\ IsUpdate(request) /\ response.status = 200
    /\ DOMAIN request.json = {"title"} /\ request.post_id = 2
    /\ Len(POSTS) = 3
    /\ POSTS[2] = [post_id |-> 2, title |-> request.json.title, content |-> SecondContent]

\* C7: delete(X) of an existing id removes exactly the post with id X and
\* keeps every other post, unmodified and in the same order; delete of an
\* unknown id answers 404 (NotFoundError) and leaves the collection unchanged.
C7_DeleteFrame ==
    [][ IsDelete(request')
        => LET X == request'.post_id
           IN  IF HasId(POSTS, X)
               THEN /\ response'.status = 200
                    /\ POSTS' = SelectSeq(POSTS, LAMBDA post : post.post_id # X)
                    /\ Len(POSTS') = Len(POSTS) - 1
               ELSE response'.status = 404 /\ POSTS' = POSTS ]_vars

\* C7's case: the first of three posts has been deleted and the two others
\* are left, in order.
C7_Witness ==
    /\ IsDelete(request) /\ response.status = 200 /\ request.post_id = 1
    /\ Len(POSTS) = 2 /\ POSTS[1].post_id = 2 /\ POSTS[2].post_id = 3

\* R lists the posts of P, each once, in non-decreasing order of the field
\* key, posts with equal keys in the order they have in P (the posts of P
\* have distinct ids).
PositionIn(P, post) == CHOOSE i \in 1..Len(P) : P[i] = post
IsStableAscending(R, P, key) ==
    /\ Len(R) = Len(P)
    /\ \A i \in 1..Len(P) : \E j \in 1..Len(R) : R[j] = P[i]
    /\ \A i, j \in 1..Len(R) :
          i < j => /\ ~ StrLess(R[j][key], R[i][key])
                   /\ (R[i][key] = R[j][key] => PositionIn(P, R[i]) < PositionIn(P, R[j]))

\* C8: for a valid sort field f, list(f, asc) returns a permutation of the
\* stored posts that is non-decreasing by f with ties in stored order,
\* list(f, desc) returns the exact reverse of that list, list without a sort
\* field returns the posts in insertion order whatever the direction (asc,
\* desc or none), and no list call changes the stored collection.
C8_ListSorted ==
    [][ IsList(request')
        => LET sort == request'.args.sort
               direction == request'.args.direction
               key == IF sort = Some(TextTitle) THEN "title" ELSE "content"
           IN  /\ POSTS' = POSTS
               /\ (sort \in {Some(TextTitle), Some(TextContent)} /\ direction = Some(TextAsc))
                     => /\ response'.status = 200
                        /\ IsStableAscending(response'.body, POSTS, key)
               /\ (sort \in {Some(TextTitle), Some(TextContent)} /\ direction = Some(TextDesc))
                     => /\ response'.status = 200
                        /\ IsStableAscending(Reverse(response'.body), POSTS, key)
               /\ (sort = None /\ direction \in {None, Some(TextAsc), Some(TextDesc)})
                     => /\ response'.status = 200
                        /\ response'.body = POSTS ]_vars

\* C8's case: two posts with the same title, listed by title descending, come
\* back in the reverse of their stored order.
C8_Witness ==
    /\ IsList(request) /\ response.status = 200
    /\ request.args.sort = Some(TextTitle) /\ request.args.direction = Some(TextDesc)
    /\ Len(POSTS) = 2 /\ POSTS[1].title = POSTS[2].title
    /\ response.body = <<POSTS[2], POSTS[1]>>

\* The posts of P with id X, those whose title contains a term, those whose
\* content contains a term.
WithId(P, X) == SelectSeq(P, LAMBDA post : post.post_id = X)
TitleHas(P, term) == SelectSeq(P, LAMBDA post : Contains(post.title, term))
ContentHas(P, term) == SelectSeq(P, LAMBDA post : Contains(post.content, term))

C10_IdsNeverReused ==
    [][ (IsCreate(request') /\ response'.status = 201)
        => response'.body.post_id > high ]_vars

\* C4: concurrent requests execute as atomic units, so that two concurrent
\* creates never obtain the same id and never both store a post with the same
\* title and content.
C4_ConcurrentCreatesSerial ==
    \A t, u \in Threads :
        (/\ t # u
         /\ threads[t].pc = "done" /\ threads[t].method = "POST" /\ threads[t].status = 201
         /\ threads[u].pc = "done" /\ threads[u].method = "POST" /\ threads[u].status = 201)
        => /\ threads[t].new_id # threads[u].new_id
           /\ ~ (/\ threads[t].json.title = threads[u].json.title
                 /\ threads[t].json.content = threads[u].json.content)

====
